---- MODULE Spec2Model ----
(***************************************************************************)
(* One call of execute_sql_query (src/queries.py): submit a statement,     *)
(* poll its status under a timeout, assemble the result (inline payload or *)
(* external chunk links) and return it or raise.  The remote statement     *)
(* execution service is the environment: it answers every request with a   *)
(* body or a transport failure, and moves the statement through its        *)
(* lifecycle on its own.                                                   *)
(***************************************************************************)
EXTENDS Integers, Sequences, FiniteSets, TLC

\* ------------------------------------------------------------------ bounds
\* largest timeout_seconds a caller passes
MaxTimeout == 5
\* longest time one HTTP request takes
MaxDelay == 1
\* number of distinct chunk indices, and longest external_links list
MaxChunks == 2
\* longest inline data_array
MaxRows == 2

\* time.sleep(2) between two polls
PollInterval == 2

\* --------------------------------------------------------- python dicts
\* A dict is a function from its keys (strings) to values.
EmptyDict == [k \in {} |-> 0]

\* d.get(k, default)
Get(d, k, default) == IF k \in DOMAIN d THEN d[k] ELSE default

\* d[k] = v
SetItem(d, k, v) == (k :> v) @@ d

\* ------------------------------------------------------------ exceptions
\* Direct base classes of the exception classes a run can meet
\* (builtins and requests.exceptions).
Bases(cls) ==
    CASE cls = "TimeoutError" -> {"OSError"}
      [] cls = "OSError" -> {"Exception"}
      [] cls = "ValueError" -> {"Exception"}
      [] cls = "RequestException" -> {"OSError"}
      [] cls = "HTTPError" -> {"RequestException"}
      [] cls = "ConnectionError" -> {"RequestException"}
      [] OTHER -> {}

RECURSIVE IsInstance(_, _)
IsInstance(cls, base) ==
    \/ cls = base
    \/ \E b \in Bases(cls) : IsInstance(b, base)

\* "no exception"
NoExc == [cls |-> "None", msg |-> <<>>]

\* requests.post / requests.get / response.raise_for_status() failing
TransportErrors ==
    { [cls |-> "HTTPError", msg |-> <<"500 Server Error">>],
      [cls |-> "ConnectionError", msg |-> <<"connection refused">>] }

\* except (requests.exceptions.RequestException, ValueError)
Caught_OSError(cls) == IsInstance(cls, "OSError") \/ IsInstance(cls, "ValueError")

Caught(cls) ==
    IsInstance(cls, "RequestException") \/ IsInstance(cls, "ValueError")

\* What leaves execute_sql_query when exc is raised inside its try block.
Handler(exc) ==
    IF Caught(exc.cls)
    THEN [cls |-> "Exception",
          msg |-> <<"API request failed during query execution: ">> \o exc.msg]
    ELSE exc

\* raise TimeoutError(f"Query timed out after {timeout_seconds} seconds.")
TimeoutExc(timeout) ==
    [cls |-> "TimeoutError",
     msg |-> <<"Query timed out after ", ToString(timeout), " seconds.">>]

\* status_response.get('status', {}).get('error', {}).get('message', 'Unknown error')
ErrorMsg_Generic(response) == "Unknown error"

ErrorMsg(response) ==
    Get(Get(Get(response, "status", EmptyDict), "error", EmptyDict),
        "message", "Unknown error")

\* raise Exception(f"Query failed with status '{status}': {error_msg}")
QueryFailedExc(status, error_msg) ==
    [cls |-> "Exception",
     msg |-> <<"Query failed with status '", status, "': ", error_msg>>]

\* ------------------------------------------------ the remote statement
NonTerminal == {"PENDING", "RUNNING"}
FailedStates == {"FAILED", "CANCELED", "CLOSED"}
Terminal == {"SUCCEEDED"} \cup FailedStates
States == NonTerminal \cup Terminal

StatementId == "stmt-1"
ErrorMessages == {"syntax error"}

RECURSIVE RowsUpTo(_)
RowsUpTo(n) == IF n = 0 THEN <<>> ELSE Append(RowsUpTo(n - 1), n)

\* Body served at the pre-signed URL of chunk k: chunk 0 holds rows 1,2,
\* chunk 1 row 3, chunk 2 rows 4,5, ... (a row is named by its number).
ChunkBody(k) ==
    IF k % 2 = 0
    THEN <<3 * (k \div 2) + 1, 3 * (k \div 2) + 2>>
    ELSE <<3 * (k \div 2) + 3>>

\* One entry of result["external_links"]; the URL is named by the chunk it serves.
LinkInfo(k) == [chunk_index |-> k, external_link |-> k]

ChunkIndices == 0 .. (MaxChunks - 1)

\* Every list of chunk descriptors the remote system may enumerate: any
\* order, and also lists with a missing or a repeated index.
LinkLists ==
    UNION { [1..n -> {LinkInfo(k) : k \in ChunkIndices}] : n \in 0..MaxChunks }

InlineArrays == { RowsUpTo(n) : n \in 0..MaxRows }

\* The "result" member of a SUCCEEDED response.
ResultPayloads ==
    { [data_array |-> a] : a \in InlineArrays }
    \cup { [data_array |-> a, row_count |-> c] : a \in InlineArrays, c \in 0..MaxRows }
    \cup { [external_links |-> ls] : ls \in LinkLists }

Manifests == { [schema |-> [column_count |-> 1]] }

StatusDicts(s) ==
    { [state |-> s] }
    \cup (IF s \in FailedStates
          THEN { [state |-> s, error |-> [message |-> m]] : m \in ErrorMessages }
               \cup { [state |-> s, error |-> EmptyDict] }
          ELSE {})

\* Every response body of POST submit / GET status that reports state s.
Responses(s) ==
    LET base == { [statement_id |-> StatementId, status |-> st] : st \in StatusDicts(s) }
    IN IF s = "SUCCEEDED"
       THEN base
            \cup { SetItem(b, "manifest", m) : b \in base, m \in Manifests }
            \cup { SetItem(b, "result", r) : b \in base, r \in ResultPayloads }
            \cup { SetItem(SetItem(b, "manifest", m), "result", r) :
                     b \in base, m \in Manifests, r \in ResultPayloads }
       ELSE base

\* The lifecycle of a statement: PENDING -> RUNNING -> one terminal state.
NextStates(s) ==
    CASE s = "PENDING" -> {"RUNNING"} \cup Terminal
      [] s = "RUNNING" -> Terminal
      [] OTHER -> {}

Delays == 0..MaxDelay
TimeoutValues == 0..MaxTimeout

\* ------------------------------------------------------------- the state
VARIABLES
    call_began,          \* history: the time execute_sql_query was entered
    pc,                  \* where the call is: submit, while, poll, sleep, fetch, done
    clock,               \* time.time()
    timeout_seconds,     \* the caller's argument
    start_time,          \* local start_time
    statement_id,        \* local statement_id
    submission_response, \* local submission_response
    status_response,     \* local status_response
    remote,              \* what the remote system reports about the statement
    links,               \* result["external_links"] being iterated
    pos,                 \* position of the for loop in links
    all_data,            \* local all_data of _fetch_results_from_links
    outcome,             \* how the call ended: returned value or raised exception
    reqs,                \* history: every outbound request, in order
    submit_returned,     \* history: the time the submission request returned
    observed             \* history: the state each status poll observed

vars == <<call_began, pc, clock, timeout_seconds, start_time, statement_id,
          submission_response, status_response, remote, links, pos, all_data,
          outcome, reqs, submit_returned, observed>>

Init ==
    /\ pc = "submit"
    /\ clock = 0
    /\ call_began = clock
    /\ timeout_seconds \in TimeoutValues
    /\ start_time = 0
    /\ statement_id = ""
    /\ submission_response = EmptyDict
    /\ status_response = EmptyDict
    /\ remote = EmptyDict
    /\ links = <<>>
    /\ pos = 0
    /\ all_data = <<>>
    /\ outcome = [kind |-> "none"]
    /\ reqs = <<>>
    /\ submit_returned = 0
    /\ observed = <<>>

Request(op, target, exc) == [op |-> op, target |-> target, ok |-> exc = NoExc]

\* an exception leaves the try block: the handler decides what the caller sees
Raise_Swallowed(exc) ==
    /\ outcome' = IF Caught(exc.cls)
                  THEN [kind |-> "return", value |-> [error |-> exc.msg]]
                  ELSE [kind |-> "raise", exc |-> exc]
    /\ pc' = "done"

Raise(exc) ==
    /\ outcome' = [kind |-> "raise", exc |-> Handler(exc)]
    /\ pc' = "done"

Return(value) ==
    /\ outcome' = [kind |-> "return", value |-> value]
    /\ pc' = "done"

\* start_time = time.time(), read after the submission returned
StartTime_BeforeSubmit(before, after) == before

StartTime(before, after) == after

\* client.execute_statement(...); statement_id = ...; start_time = time.time()
execute_statement ==
    /\ pc = "submit"
    /\ \E d \in Delays, exc \in {NoExc} \cup TransportErrors :
         /\ clock' = clock + d
         /\ reqs' = Append(reqs, Request("POST", "statements", exc))
         /\ submit_returned' = clock'
         /\ IF exc # NoExc
            THEN /\ Raise(exc)
                 /\ UNCHANGED <<start_time, statement_id, submission_response, remote>>
            ELSE \E s \in States : \E body \in Responses(s) :
                   /\ remote' = body
                   /\ submission_response' = body
                   /\ statement_id' = body["statement_id"]
                   /\ start_time' = StartTime(clock, clock')
                   /\ pc' = "while"
                   /\ UNCHANGED outcome
    /\ UNCHANGED <<call_began, timeout_seconds, status_response, links, pos, all_data, observed>>

\* while time.time() - start_time < timeout_seconds
LoopCond_Early(now, start, timeout) == now - start < timeout - 1

LoopCond(now, start, timeout) == now - start < timeout

\* After the loop: logger.warning(...) and the raise; no request is sent, so
\* the request log and the remote statement stay as they are.
OnTimeout_Cancel(rq, rem, id) ==
    [reqs |-> Append(rq, Request("POST_CANCEL", id, NoExc)),
     remote |-> SetItem(rem, "status", [state |-> "CANCELED"])]

OnTimeout(rq, rem, id) == [reqs |-> rq, remote |-> rem]

\* The loop test; when it fails: raise TimeoutError(...)
while_test ==
    /\ pc = "while"
    /\ IF LoopCond(clock, start_time, timeout_seconds)
       THEN pc' = "poll" /\ UNCHANGED <<outcome, reqs, remote>>
       ELSE /\ Raise(TimeoutExc(timeout_seconds))
            /\ reqs' = OnTimeout(reqs, remote, statement_id).reqs
            /\ remote' = OnTimeout(reqs, remote, statement_id).remote
    /\ UNCHANGED <<call_began, clock, timeout_seconds, start_time, statement_id,
                   submission_response, status_response, links, pos,
                   all_data, submit_returned, observed>>

\* elif status in ["FAILED", "CANCELED", "CLOSED"]
IsFailedStatus_NoClosed(status) == status \in {"FAILED", "CANCELED"}

IsFailedStatus(status) == status \in {"FAILED", "CANCELED", "CLOSED"}

\* if status == "SUCCEEDED"
IsSucceeded_AnyTerminal(status) == status \in {"SUCCEEDED", "FAILED", "CANCELED", "CLOSED"}

IsSucceeded(status) == status = "SUCCEEDED"

\* final_result of _fetch_results_from_links for a chunked result
FinalResult(data) == [data_array |-> data, row_count |-> Len(data)]

\* final_data["schema"] = manifest.get("schema", {})
WithSchema(final_data, response) ==
    SetItem(final_data, "schema",
            Get(Get(response, "manifest", EmptyDict), "schema", EmptyDict))

\* One pass of the loop body: client.get_statement, then the branch on status.
get_statement ==
    /\ pc = "poll"
    /\ \E d \in Delays, exc \in {NoExc} \cup TransportErrors :
         /\ clock' = clock + d
         /\ reqs' = Append(reqs, Request("GET_STATUS", statement_id, exc))
         /\ IF exc # NoExc
            THEN /\ Raise(exc)
                 /\ UNCHANGED <<status_response, observed, links, pos, all_data>>
            ELSE LET response == remote
                     status == response["status"]["state"]
                     result == Get(response, "result", EmptyDict)
                 IN /\ status_response' = response
                    /\ observed' = Append(observed, status)
                    /\ IF IsSucceeded(status)
                       THEN IF "external_links" \notin DOMAIN result
                            THEN /\ Return(WithSchema(result, response))
                                 /\ UNCHANGED <<links, pos, all_data>>
                            ELSE IF result["external_links"] = <<>>
                            THEN /\ Return(WithSchema(FinalResult(<<>>), response))
                                 /\ UNCHANGED <<links, pos, all_data>>
                            ELSE /\ links' = result["external_links"]
                                 /\ pos' = 1
                                 /\ all_data' = <<>>
                                 /\ pc' = "fetch"
                                 /\ UNCHANGED outcome
                       ELSE IF IsFailedStatus(status)
                       THEN /\ Raise(QueryFailedExc(status, ErrorMsg(response)))
                            /\ UNCHANGED <<links, pos, all_data>>
                       ELSE /\ pc' = "sleep"
                            /\ UNCHANGED <<outcome, links, pos, all_data>>
    /\ UNCHANGED <<call_began, timeout_seconds, start_time, statement_id, submission_response,
                   remote, submit_returned>>

\* the clock after time.sleep(2)
AfterSleep_NoWait(now) == now

AfterSleep(now) == now + PollInterval

\* time.sleep(2)
sleep ==
    /\ pc = "sleep"
    /\ clock' = AfterSleep(clock)
    /\ pc' = "while"
    /\ UNCHANGED <<call_began, timeout_seconds, start_time, statement_id, submission_response,
                   status_response, remote, links, pos, all_data, outcome, reqs,
                   submit_returned, observed>>

\* response = session.get(...); response.raise_for_status();
\* all_data.extend(response.json())
FetchStep_SkipFailed(data, link_info, exc) ==
    [raised |-> NoExc,
     data |-> IF exc # NoExc THEN data ELSE data \o ChunkBody(link_info["external_link"])]

FetchStep(data, link_info, exc) ==
    IF exc # NoExc
    THEN [raised |-> exc, data |-> data]
    ELSE [raised |-> NoExc, data |-> data \o ChunkBody(link_info["external_link"])]

\* One pass of the for loop over result["external_links"]; after the last
\* link the result is rebuilt, given its schema and returned.
fetch_chunk ==
    /\ pc = "fetch"
    /\ \E d \in Delays, exc \in {NoExc} \cup TransportErrors :
         LET link_info == links[pos]
             step == FetchStep(all_data, link_info, exc)
         IN /\ clock' = clock + d
            /\ reqs' = Append(reqs, Request("GET_CHUNK", link_info["external_link"], exc))
            /\ all_data' = step.data
            /\ IF step.raised # NoExc
               THEN Raise(step.raised) /\ UNCHANGED pos
               ELSE IF pos = Len(links)
               THEN Return(WithSchema(FinalResult(step.data), status_response))
                    /\ UNCHANGED pos
               ELSE pos' = pos + 1 /\ UNCHANGED <<pc, outcome>>
    /\ UNCHANGED <<call_began, timeout_seconds, start_time, statement_id, submission_response,
                   status_response, remote, links, submit_returned, observed>>

\* The remote system moves the statement on while the caller waits.
RemoteAdvance ==
    /\ pc \in {"while", "poll", "sleep"}
    /\ \E s \in NextStates(remote["status"]["state"]) : remote' \in Responses(s)
    /\ UNCHANGED <<call_began, pc, clock, timeout_seconds, start_time, statement_id,
                   submission_response, status_response, links, pos, all_data,
                   outcome, reqs, submit_returned, observed>>

Next ==
    \/ execute_statement
    \/ while_test
    \/ get_statement
    \/ sleep
    \/ fetch_chunk
    \/ RemoteAdvance

Spec == Init /\ [][Next]_vars

\* The call is one blocking thread: every request returns and every sleep
\* ends, so the call always takes its next step.  Nothing is assumed about
\* the remote statement ever leaving PENDING/RUNNING.
CallStep ==
    \/ execute_statement
    \/ while_test
    \/ get_statement
    \/ sleep
    \/ fetch_chunk

FairSpec == Spec /\ WF_vars(CallStep)

\* ------------------------------------------------------ reading a run
Done == pc = "done"
Returned == outcome.kind = "return"
Raised == outcome.kind = "raise"

\* the result payload of the SUCCEEDED response the call assembled
Payload == Get(status_response, "result", EmptyDict)
ChunkedResult == "external_links" \in DOMAIN Payload
InlineResult == ~ChunkedResult /\ "data_array" \in DOMAIN Payload

TransportFailure == \E i \in DOMAIN reqs : ~reqs[i].ok
ChunkFetchFailed == \E i \in DOMAIN reqs : reqs[i].op = "GET_CHUNK" /\ ~reqs[i].ok

LastObserved == observed[Len(observed)]
OnlyNonTerminalObserved == \A i \in DOMAIN observed : observed[i] \in NonTerminal
ObservedFailure == Len(observed) > 0 /\ LastObserved \in FailedStates

TimedOut == Raised /\ IsInstance(outcome.exc.cls, "TimeoutError")

Contains(msg, part) == \E i \in DOMAIN msg : msg[i] = part

\* number of status polls among the first n requests that got an answer
RECURSIVE AnsweredPolls(_)
AnsweredPolls(n) ==
    IF n = 0 THEN 0
    ELSE AnsweredPolls(n - 1)
         + (IF reqs[n].op = "GET_STATUS" /\ reqs[n].ok THEN 1 ELSE 0)

Indices(ls) == { ls[i]["chunk_index"] : i \in DOMAIN ls }
DistinctIndices(ls) == Cardinality(Indices(ls)) = Len(ls)
CompleteIndices(ls) == DistinctIndices(ls) /\ Indices(ls) = 0 .. (Len(ls) - 1)

Min(S) == CHOOSE m \in S : \A x \in S : m <= x

\* the bodies of the chunks whose indices are in S, by ascending chunk index
RECURSIVE AscendingConcat(_, _)
AscendingConcat(ls, S) ==
    IF S = {} THEN <<>>
    ELSE LET m == Min(S)
             l == CHOOSE i \in DOMAIN ls : ls[i]["chunk_index"] = m
         IN ChunkBody(ls[l]["external_link"]) \o AscendingConcat(ls, S \ {m})

RECURSIVE RowsOfChunks(_)
RowsOfChunks(n) == IF n = 0 THEN 0 ELSE RowsOfChunks(n - 1) + Len(ChunkBody(n - 1))

\* ------------------------------------------------------------- claims

\* C1: for a chunked result whose descriptors carry distinct indices, in
\* whatever order they are enumerated, the returned data_array is the
\* concatenation of the chunk bodies by ascending chunk index.
C1_ChunksInIndexOrder ==
    (Returned /\ ChunkedResult /\ DistinctIndices(Payload["external_links"]))
    => outcome.value["data_array"]
         = AscendingConcat(Payload["external_links"],
                           Indices(Payload["external_links"]))

\* C2: a chunked result is returned only when its descriptors are exactly
\* the indices 0..n-1, each once, and then row_count is the sum of the rows
\* of chunks 0..n-1; a gap or a repeated index ends the call in an error.
C2_NoGapNoDuplicate ==
    (Done /\ ChunkedResult /\ LastObserved = "SUCCEEDED")
    => IF CompleteIndices(Payload["external_links"])
       THEN Returned => outcome.value["row_count"]
                          = RowsOfChunks(Len(Payload["external_links"]))
       ELSE Raised

\* C3: only the last observed state can be terminal; after the poll that
\* observed a terminal state no status poll is issued, and the terminal
\* state decides the outcome: FAILED/CANCELED/CLOSED end in the query-failed
\* error naming that state, SUCCEEDED leads to assembly and never to a
\* timeout or query-failed error.
C3_TerminalStopsPolling ==
    /\ \A i \in 1 .. (Len(observed) - 1) : observed[i] \in NonTerminal
    /\ AnsweredPolls(Len(reqs)) = Len(observed)
    /\ \A i \in DOMAIN reqs, j \in DOMAIN reqs :
         (/\ i < j
          /\ reqs[i].op = "GET_STATUS" /\ reqs[i].ok
          /\ observed[AnsweredPolls(i)] \in Terminal)
         => reqs[j].op # "GET_STATUS"
    /\ (Len(observed) > 0 /\ LastObserved \in Terminal)
       => /\ pc \in {"fetch", "done"}
          /\ LastObserved \in FailedStates
             => /\ Raised
                /\ outcome.exc.cls = "Exception"
                /\ outcome.exc.msg[1] = "Query failed with status '"
                /\ outcome.exc.msg[2] = LastObserved
          /\ (LastObserved = "SUCCEEDED" /\ Done)
             => \/ Returned
                \/ /\ Raised
                   /\ ChunkFetchFailed
                   /\ outcome.exc.msg[1] = "API request failed during query execution: "

C3_Witness ==
    /\ observed = <<"PENDING", "RUNNING", "SUCCEEDED">>
    /\ Returned
    /\ \E i \in DOMAIN reqs : reqs[i].op = "GET_CHUNK"

\* C4: a run whose polls were all answered with a non-terminal state ends
\* in the timeout error; the timeout error is raised only once the time
\* since the submission returned has reached timeout_seconds; and no request
\* is issued after it.
C4_TimeoutBoundary ==
    /\ [](/\ (Done /\ ~TransportFailure /\ OnlyNonTerminalObserved)
             => (Raised /\ outcome.exc = TimeoutExc(timeout_seconds))
          /\ TimedOut => (Done /\ clock - submit_returned >= timeout_seconds))
    /\ [][TimedOut => UNCHANGED reqs]_vars

C4_Witness ==
    /\ TimedOut
    /\ timeout_seconds > 0
    /\ Len(observed) >= 2
    /\ OnlyNonTerminalObserved

C6_SubmissionStateIsInitial ==
    (/\ Done
     /\ ~TransportFailure
     /\ submission_response["status"]["state"] = "SUCCEEDED"
     /\ "result" \in DOMAIN submission_response
     /\ "data_array" \in DOMAIN submission_response["result"])
    => /\ Returned
       /\ outcome.value["data_array"] = submission_response["result"]["data_array"]
       /\ "row_count" \in DOMAIN outcome.value
       /\ outcome.value["row_count"] = Len(submission_response["result"]["data_array"])

\* C7: when a poll observes FAILED, CANCELED or CLOSED the call raises and
\* returns nothing; the error names the observed state, carries the remote
\* error message when the response has one, and a generic text otherwise.
C7_RemoteFailureMessage ==
    ObservedFailure
    => LET status == status_response["status"]
           supplied == "error" \in DOMAIN status /\ "message" \in DOMAIN status["error"]
       IN /\ Raised
          /\ Contains(outcome.exc.msg, LastObserved)
          /\ IF supplied
             THEN Contains(outcome.exc.msg, status["error"]["message"])
             ELSE Contains(outcome.exc.msg, "Unknown error")

C7_Witness ==
    /\ ObservedFailure
    /\ LastObserved = "FAILED"
    /\ Raised
    /\ Contains(outcome.exc.msg, "syntax error")

\* C8: a run whose polls were all non-terminal ends with a TimeoutError, a
\* run that observed FAILED/CANCELED/CLOSED ends with a plain Exception
\* that is no TimeoutError, and the handler's "API request failed" wrapper
\* is put around neither: it appears only after a transport failure.
C8_TimeoutDistinctFromRemoteFailure ==
    /\ (Done /\ ~TransportFailure /\ OnlyNonTerminalObserved)
       => (Raised /\ IsInstance(outcome.exc.cls, "TimeoutError"))
    /\ ObservedFailure
       => (Raised /\ outcome.exc.cls = "Exception"
           /\ ~IsInstance(outcome.exc.cls, "TimeoutError"))
    /\ (Raised /\ outcome.exc.msg[1] = "API request failed during query execution: ")
       => TransportFailure

C8_Witness ==
    /\ observed = <<"RUNNING", "CLOSED">>
    /\ Raised
    /\ outcome.exc.cls = "Exception"
    /\ ~TransportFailure

\* C9: once the fetch of a chunk has failed the call is over and has
\* raised: nothing is returned, in particular not the rows fetched so far.
C9_NoPartialResult ==
    ChunkFetchFailed => (Done /\ Raised)

C9_Witness ==
    /\ ChunkFetchFailed
    /\ all_data # <<>>
    /\ Raised

\* C10: for an inline result the returned value has row_count, and
\* row_count = len(data_array) = length of the payload's row array, whatever
\* row_count the payload carried or not.
C10_InlineRowCount ==
    (Returned /\ InlineResult)
    => /\ "row_count" \in DOMAIN outcome.value
       /\ outcome.value["row_count"] = Len(outcome.value["data_array"])
       /\ Len(outcome.value["data_array"]) = Len(Payload["data_array"])

\* C11: when the SUCCEEDED response carries a manifest and a result payload
\* that is absent or has no rows and no chunk descriptors, the call returns
\* a valid empty result: data_array empty and row_count 0.
C11_EmptyResult ==
    (/\ Done
     /\ Len(observed) > 0
     /\ LastObserved = "SUCCEEDED"
     /\ "manifest" \in DOMAIN status_response
     /\ ~ChunkedResult
     /\ Get(Payload, "data_array", <<>>) = <<>>)
    => /\ Returned
       /\ "data_array" \in DOMAIN outcome.value
       /\ outcome.value["data_array"] = <<>>
       /\ "row_count" \in DOMAIN outcome.value
       /\ outcome.value["row_count"] = 0

\* C12: the only requests of a run are one submit POST (the first request),
\* status GETs for the statement id the submission returned, and chunk
\* GETs; no step of the call changes the remote statement, and the step
\* that raises the timeout sends nothing and leaves the remote statement in
\* the state it was in.
C12_NoCancellation ==
    /\ [](\A i \in DOMAIN reqs :
            /\ reqs[i].op \in {"POST", "GET_STATUS", "GET_CHUNK"}
            /\ reqs[i].op = "POST" => (i = 1 /\ reqs[i].target = "statements")
            /\ reqs[i].op = "GET_STATUS"
               => reqs[i].target = submission_response["statement_id"])
    /\ [][(pc # "submit" /\ (pc' # pc \/ reqs' # reqs \/ clock' # clock))
          => remote' = remote]_vars
    /\ [][(~TimedOut /\ TimedOut') => (reqs' = reqs /\ remote' = remote)]_vars

C12_Witness ==
    /\ TimedOut
    /\ Len(observed) >= 1
    /\ remote["status"]["state"] = "RUNNING"
    /\ \A i \in DOMAIN reqs : reqs[i].op \in {"POST", "GET_STATUS"}

IsChunkReq(r) == r.op = "GET_CHUNK"
ChunkReqs == SelectSeq(reqs, IsChunkReq)

\* C13: the submit request is the first request and the only POST; chunk
\* fetches form one block at the end of the run, each link of the result
\* fetched at most once and in the order of the list; assembly (chunk
\* fetches, or a returned result) happens only after a poll observed
\* SUCCEEDED, and never after FAILED/CANCELED/CLOSED or a timeout.
C13_StrictOrder ==
    /\ pc # "submit" => (reqs # <<>> /\ reqs[1].op = "POST")
    /\ \A i \in DOMAIN reqs : reqs[i].op = "POST" => i = 1
    /\ \A i \in DOMAIN reqs, j \in DOMAIN reqs :
         (i < j /\ reqs[i].op = "GET_CHUNK") => reqs[j].op = "GET_CHUNK"
    /\ Len(ChunkReqs) <= Len(links)
    /\ \A k \in DOMAIN ChunkReqs : ChunkReqs[k].target = links[k]["external_link"]
    /\ (ChunkReqs # <<>> \/ pc = "fetch" \/ Returned)
       => (Len(observed) > 0 /\ LastObserved = "SUCCEEDED" /\ ~TimedOut)
    /\ (Raised /\ (ObservedFailure \/ TimedOut)) => (Done /\ ChunkReqs = <<>>)

C13_Witness ==
    /\ Returned
    /\ Len(ChunkReqs) = 2
    /\ Len(observed) >= 2
    /\ reqs[1].op = "POST"

\* C14: a request that fails at the transport level is the last request of
\* the run (it is not retried and nothing else is sent), it is the only
\* failed request, and the call has ended by raising an error that carries
\* the failure's message.
C14_TransportFailureSurfaced ==
    \A i \in DOMAIN reqs :
      ~reqs[i].ok
      => /\ i = Len(reqs)
         /\ Done
         /\ Raised
         /\ outcome.exc.cls = "Exception"
         /\ \E e \in TransportErrors :
              outcome.exc.msg
                = <<"API request failed during query execution: ">> \o e.msg

C14_Witness ==
    /\ Len(observed) >= 1
    /\ reqs[Len(reqs)].op = "GET_STATUS"
    /\ ~reqs[Len(reqs)].ok
    /\ Raised

IsPollReq(r) == r.op = "GET_STATUS"
NumPolls == Len(SelectSeq(reqs, IsPollReq))

EndKinds ==
    { k \in {"result", "remote failure", "transport error", "timeout"} :
        \/ k = "result" /\ Returned
        \/ k = "remote failure" /\ Raised
             /\ outcome.exc.msg[1] = "Query failed with status '"
        \/ k = "transport error" /\ Raised
             /\ outcome.exc.msg[1] = "API request failed during query execution: "
        \/ k = "timeout" /\ Raised /\ outcome.exc.cls = "TimeoutError" }

\* C15: with every request returning and every sleep advancing the clock by
\* PollInterval, each call ends; it ends in exactly one of a returned
\* result, a remote-failure error, a transport error or a timeout error,
\* and keeps that outcome; the k-th status poll is issued only while
\* (k-1) * PollInterval is below timeout_seconds, so the number of polls is
\* bounded even if the remote statement stays PENDING/RUNNING for ever.
C15_Terminates ==
    /\ <>Done
    /\ [](Done => Cardinality(EndKinds) = 1)
    /\ [](~Done => EndKinds = {})
    /\ [](NumPolls >= 1 => (NumPolls - 1) * PollInterval < timeout_seconds)
    /\ [][Done => UNCHANGED <<outcome, reqs>>]_vars

C15_Witness ==
    /\ Done
    /\ EndKinds = {"timeout"}
    /\ NumPolls = 3
    /\ OnlyNonTerminalObserved
    /\ remote["status"]["state"] = "PENDING"

====
